---- MODULE Spec2Model ----
(***************************************************************************)
(* The persistence layer of src/app.js: class DataLayer, a thin wrapper    *)
(* over an IndexedDB database.  The model keeps the committed contents of  *)
(* every object store (records, secondary-index entries, key generator),   *)
(* the queue of live transactions with the requests placed on them, the    *)
(* position of every engine call in flight, the listener list of the       *)
(* engine's EventTarget, and the engine's connection handle this.db.       *)
(* lastKey records the key of the audit entry committed last.  disposers   *)
(* holds the subscriptions whose disposer has not been called; task holds  *)
(* the handlers of the application that chain engine calls (like toggle,   *)
(* setActiveProfile, chat quick action, dev panel reset), and              *)
(* activeProfileId is state.activeProfileId.                               *)
(*                                                                         *)
(* Primary keys, chat ids and profile ids are naturals.  The field `time`  *)
(* (Date.now()) of audit entries and of the seed marker is left out: no    *)
(* operation of the engine reads it.  Records carry the key, the indexed   *)
(* fields the properties are about, and one or two further fields.         *)
(*                                                                         *)
(* Definitions introduced as "fault:" are deliberately wrong variants of   *)
(* the definition that follows them; a property that is meant to depend on *)
(* that definition must fail when the variant takes its place.             *)
(***************************************************************************)
EXTENDS Integers, Sequences, FiniteSets, TLC

VARIABLES db, txq, call, subs, disposers, ncalls, conn, lastKey,
          task, activeProfileId

\* the application's handlers: those that are running, and state.activeProfileId
app == <<task, activeProfileId>>

vars == <<db, txq, call, subs, disposers, ncalls, conn, lastKey, app>>

(***************************************************************************)
(* Bounds of the model.                                                    *)
(***************************************************************************)
\* total number of engine calls issued in one behaviour
MaxCalls == 2

\* the concurrent callers (call slots)
Callers == {1, 2, 3}

\* the listeners a consumer may register
Handlers == {"h1"}

(***************************************************************************)
(* Schema: STORES and the object stores created by onupgradeneeded.        *)
(***************************************************************************)
STORES == <<"meta", "users", "profiles", "chats", "messages", "posts",
            "comments", "likes", "logs">>

StoreNames == { STORES[i] : i \in 1..Len(STORES) }

KeyPath(store) == IF store = "meta" THEN "key" ELSE "id"

AutoIncrement(store) == store = "logs"

\* the indexes whose key path holds one value
ScalarIndexDefs ==
  { [store |-> "messages", name |-> "by_chat",    keyPath |-> "chatId",          multiEntry |-> FALSE],
    [store |-> "messages", name |-> "by_time",    keyPath |-> "time",            multiEntry |-> FALSE],
    [store |-> "posts",    name |-> "by_author",  keyPath |-> "authorProfileId", multiEntry |-> FALSE],
    [store |-> "posts",    name |-> "by_type",    keyPath |-> "type",            multiEntry |-> FALSE],
    [store |-> "comments", name |-> "by_post",    keyPath |-> "postId",          multiEntry |-> FALSE],
    [store |-> "likes",    name |-> "by_post",    keyPath |-> "postId",          multiEntry |-> FALSE],
    [store |-> "likes",    name |-> "by_profile", keyPath |-> "profileId",       multiEntry |-> FALSE],
    [store |-> "logs",     name |-> "by_time",    keyPath |-> "time",            multiEntry |-> FALSE] }

\* fault: by_participant created without multiEntry
IndexDefsNoMultiEntry ==
  ScalarIndexDefs
  \cup { [store |-> "chats", name |-> "by_participant",
          keyPath |-> "participants", multiEntry |-> FALSE] }

IndexDefs ==
  ScalarIndexDefs
  \cup { [store |-> "chats", name |-> "by_participant",
          keyPath |-> "participants", multiEntry |-> TRUE] }

\* the fields of the data model whose value is an array
ArrayFields == {"participants"}

(***************************************************************************)
(* Sequence helpers.                                                       *)
(***************************************************************************)
Range(s) == { s[i] : i \in 1..Len(s) }

RemoveAt(s, i) == [ j \in 1..(Len(s) - 1) |-> IF j < i THEN s[j] ELSE s[j + 1] ]

(***************************************************************************)
(* One object store: its records, the entries of its indexes               *)
(* <<index name, index key, primary key>>, and the current number of its   *)
(* key generator (the next key an autoIncrement store hands out).          *)
(***************************************************************************)
EmptyStore == [recs |-> {}, ix |-> {}, gen |-> 1]

\* index keys are tagged, so that the array [1] and the scalar 1 differ
ScalarKey(x) == [t |-> "scalar", v |-> <<x>>]

ArrayKey(a) == [t |-> "array", v |-> a]

\* the keys one record contributes to one index
IndexKeys(def, value) ==
  IF def.keyPath \notin DOMAIN value THEN {}
  ELSE IF def.keyPath \in ArrayFields
       THEN IF def.multiEntry
            THEN { ScalarKey(x) : x \in Range(value[def.keyPath]) }
            ELSE { ArrayKey(value[def.keyPath]) }
       ELSE { ScalarKey(value[def.keyPath]) }

IndexEntries(store, value, pk) ==
  UNION { { <<def.name, k, pk>> : k \in IndexKeys(def, value) } :
          def \in { d \in IndexDefs : d.store = store } }

HasKey(store, value) == KeyPath(store) \in DOMAIN value

\* IDBObjectStore.put / add throw DataError for a value without a key,
\* unless the store generates keys
ValidValue(store, value) == HasKey(store, value) \/ AutoIncrement(store)

\* the key a stored value gets
AssignedKey(st, store, value) ==
  IF HasKey(store, value) THEN value[KeyPath(store)] ELSE st.gen

\* the value as stored: a generated key is written into the key path
Stored(st, store, value) ==
  IF HasKey(store, value) THEN value
  ELSE [ f \in DOMAIN value \cup {KeyPath(store)} |->
           IF f = KeyPath(store) THEN st.gen ELSE value[f] ]

NextGen(st, store, value) ==
  IF ~AutoIncrement(store) THEN st.gen
  ELSE IF ~HasKey(store, value) THEN st.gen + 1
  ELSE IF value[KeyPath(store)] >= st.gen THEN value[KeyPath(store)] + 1
  ELSE st.gen

\* fault: a put that merges the value into the record already stored
StorePutMerge(st, store, value) ==
  LET k   == AssignedKey(st, store, value)
      old == { r \in st.recs : r[KeyPath(store)] = k }
      new == Stored(st, store, value)
      Merged(r) == [ f \in DOMAIN r \cup DOMAIN new |->
                       IF f \in DOMAIN new THEN new[f] ELSE r[f] ]
  IN  [ recs |-> { r \in st.recs : r[KeyPath(store)] # k }
                   \cup (IF old = {} THEN {new} ELSE { Merged(r) : r \in old }),
        ix   |-> { e \in st.ix : e[3] # k } \cup IndexEntries(store, value, k),
        gen  |-> NextGen(st, store, value) ]

\* IDBObjectStore.put(value): insert, or replace the whole record at its key
StorePut(st, store, value) ==
  LET k == AssignedKey(st, store, value)
  IN  [ recs |-> { r \in st.recs : r[KeyPath(store)] # k }
                   \cup { Stored(st, store, value) },
        ix   |-> { e \in st.ix : e[3] # k } \cup IndexEntries(store, value, k),
        gen  |-> NextGen(st, store, value) ]

\* IDBObjectStore.delete(key): no error when the key is absent
StoreDelete(st, store, key) ==
  [ recs |-> { r \in st.recs : r[KeyPath(store)] # key },
    ix   |-> { e \in st.ix : e[3] # key },
    gen  |-> st.gen ]

\* fault: a clear() that starts the key generator again
StoreClearResetsGen(st) == [ recs |-> {}, ix |-> {}, gen |-> 1 ]

\* IDBObjectStore.clear(): the key generator is not reset
StoreClear(st) == [ recs |-> {}, ix |-> {}, gen |-> st.gen ]

\* one request applied to the contents of the stores
ApplyRequest(d, rq) ==
  [ d EXCEPT ![rq.store] =
      IF rq.op \in {"put", "add"} THEN StorePut(d[rq.store], rq.store, rq.arg)
      ELSE IF rq.op = "delete" THEN StoreDelete(d[rq.store], rq.store, rq.arg)
      ELSE StoreClear(d[rq.store]) ]

\* the requests of a transaction, applied in the order they were placed
RECURSIVE ApplyAll(_, _)
ApplyAll(d, reqs) ==
  IF Len(reqs) = 0 THEN d
  ELSE ApplyAll(ApplyRequest(d, Head(reqs)), Tail(reqs))

\* IDBObjectStore.add fails with ConstraintError when the key is taken:
\* whether every request of the sequence can succeed
RECURSIVE CanSucceed(_, _)
CanSucceed(d, reqs) ==
  IF Len(reqs) = 0 THEN TRUE
  ELSE LET rq == Head(reqs)
           taken ==
             /\ rq.op = "add"
             /\ HasKey(rq.store, rq.arg)
             /\ \E r \in d[rq.store].recs :
                  r[KeyPath(rq.store)] = rq.arg[KeyPath(rq.store)]
       IN  ~taken /\ CanSucceed(ApplyRequest(d, rq), Tail(reqs))

(***************************************************************************)
(* Reads of the committed contents: DataLayer.get and DataLayer.getAll.    *)
(* get resolves with the record or undefined: here a set of at most one.   *)
(***************************************************************************)
Get(d, store, key) == { r \in d[store].recs : r[KeyPath(store)] = key }

\* objectStore.getAll()
GetAllStore(d, store) == d[store].recs

\* objectStore.index(indexName).getAll(query)
GetAllIndex(d, store, indexName, query) ==
  { r \in d[store].recs :
      <<indexName, ScalarKey(query), r[KeyPath(store)]>> \in d[store].ix }

\* DataLayer.getAll(store, indexName, query); NoIndex stands for an absent
\* indexName
NoIndex == "none"

\* fault: a getAll that never goes through the index
GetAllIgnoresIndex(d, store, indexName, query) == GetAllStore(d, store)

GetAll(d, store, indexName, query) ==
  IF indexName # NoIndex THEN GetAllIndex(d, store, indexName, query)
  ELSE GetAllStore(d, store)

(***************************************************************************)
(* The records the model's callers write, and the calls the application   *)
(* issues: put on messages and chats, delete on chats and messages,        *)
(* bulkPut on any store (the dev panel's apply), clearAll (its reset).     *)
(***************************************************************************)
M1a == [id |-> 1, chatId |-> 1]

M1b == [id |-> 1, chatId |-> 2, text |-> "hi"]

M2 == [id |-> 2, chatId |-> 1]

MNoKey == [chatId |-> 1]

C1a == [id |-> 1, participants |-> <<1, 2>>]

C1b == [id |-> 1, participants |-> <<2, 3>>, pinned |-> TRUE]

L1 == [id |-> 1, action |-> "import", payload |-> [info |-> "imported"]]

LNoKey == [action |-> "import", payload |-> [info |-> "imported"]]

M4 == [id |-> 4, chatId |-> 2]

M5 == [id |-> 5, chatId |-> 1]

C2a == [id |-> 2, participants |-> <<1, 3>>]

P1 == [id |-> 1, active |-> TRUE]

P2 == [id |-> 2, active |-> FALSE]

SeedLog == [id |-> 1, action |-> "seed", payload |-> [info |-> "Seed database loaded"]]

SeedMarker == [key |-> "seeded", value |-> TRUE]

\* the stores the model's callers target
Targets == {"chats", "messages", "logs"}

PutInputs ==
  { [store |-> "messages", arg |-> v] : v \in {M1a, M1b, M2, MNoKey} }
  \cup { [store |-> "chats", arg |-> v] : v \in {C1a, C1b} }

BulkPutInputs ==
  { [store |-> "messages", arg |-> vs] :
      vs \in { <<>>, <<M1b, M2>>, <<M2, MNoKey>> } }
  \cup { [store |-> "chats", arg |-> <<C1b>>] }
  \cup { [store |-> "logs", arg |-> <<L1, LNoKey>>] }

DeleteInputs ==
  { [store |-> "messages", arg |-> k] : k \in {1, 2} }
  \cup { [store |-> "chats", arg |-> 1] }

ClearAllInputs == { [store |-> "all", arg |-> 0] }

Inputs(o) ==
  IF o = "put" THEN PutInputs
  ELSE IF o = "bulkPut" THEN BulkPutInputs
  ELSE IF o = "delete" THEN DeleteInputs
  ELSE ClearAllInputs

Ops == {"put", "bulkPut", "delete", "clearAll"}

\* get(store, key): message 3 is never stored
GetInputs ==
  { [store |-> "messages", arg |-> 1], [store |-> "messages", arg |-> 3] }

\* getAll(store, indexName, query)
GetAllInputs ==
  { [store |-> "messages", arg |-> [indexName |-> NoIndex, query |-> 0]],
    [store |-> "messages", arg |-> [indexName |-> "by_chat", query |-> 1]],
    [store |-> "logs",     arg |-> [indexName |-> NoIndex, query |-> 0]] }

OpenInputs == { [store |-> "none", arg |-> 0] }

Reads == {"get", "getAll"}

\* the calls of a session that starts with the engine just constructed
LifeOps == Ops \cup Reads \cup {"open"}

LifeInputs(o) ==
  IF o = "get" THEN GetInputs
  ELSE IF o = "getAll" THEN GetAllInputs
  ELSE IF o = "open" THEN OpenInputs
  ELSE Inputs(o)

\* seed-db.json: a mapping from collection name to records
SeedData ==
  [ profiles |-> <<P1, P2>>, chats |-> <<C1a, C2a>>, messages |-> <<M1a, M4, M5>> ]

\* data[store] || []
SeedItems(store) ==
  IF store \in DOMAIN SeedData THEN SeedData[store] ELSE <<>>

(***************************************************************************)
(* The engine's calls.                                                     *)
(***************************************************************************)
\* the action name recordLog is given
ActionName(o) == IF o = "clearAll" THEN "reset" ELSE o

\* the payload recordLog is given
LogPayload(o, store, arg) ==
  IF o = "put" THEN [store |-> store, value |-> arg]
  ELSE IF o = "bulkPut" THEN [store |-> store, count |-> Len(arg)]
  ELSE IF o = "delete" THEN [store |-> store, key |-> arg]
  ELSE IF o = "seed" THEN [info |-> "Seed database loaded"]
  ELSE [info |-> "database cleared"]

\* fault: an audit entry with a fixed id, used by AuditTxPutFixedId
LogEntryFixedId(o, store, arg) ==
  [id |-> 1, action |-> ActionName(o), payload |-> LogPayload(o, store, arg)]

\* the entry recordLog adds: no id, the store generates it
LogEntry(o, store, arg) ==
  [action |-> ActionName(o), payload |-> LogPayload(o, store, arg)]

\* the stores of the call's transaction
Scope(o, store) == IF o = "clearAll" THEN StoreNames ELSE {store}

PutRequest(store, value) == [op |-> "put", store |-> store, arg |-> value]

RECURSIVE ValidPuts(_, _)
ValidPuts(store, values) ==
  IF Len(values) = 0 THEN <<>>
  ELSE (IF ValidValue(store, Head(values))
        THEN <<PutRequest(store, Head(values))>> ELSE <<>>)
       \o ValidPuts(store, Tail(values))

\* fault: a bulkPut whose transaction carries only its first record
TxRequestsFirstOnly(o, store, arg) ==
  IF o = "put" THEN ValidPuts(store, <<arg>>)
  ELSE IF o = "bulkPut"
  THEN (IF Len(arg) = 0 THEN <<>> ELSE ValidPuts(store, <<Head(arg)>>))
  ELSE IF o = "delete" THEN << [op |-> "delete", store |-> store, arg |-> arg] >>
  ELSE [ i \in 1..Len(STORES) |-> [op |-> "clear", store |-> STORES[i], arg |-> 0] ]

\* the requests the call places on its transaction; a put that throws
\* places none, and the puts after it in a bulkPut are still placed
TxRequests(o, store, arg) ==
  IF o = "put" THEN ValidPuts(store, <<arg>>)
  ELSE IF o = "bulkPut" THEN ValidPuts(store, arg)
  ELSE IF o = "delete" THEN << [op |-> "delete", store |-> store, arg |-> arg] >>
  ELSE [ i \in 1..Len(STORES) |-> [op |-> "clear", store |-> STORES[i], arg |-> 0] ]

\* objectStore.put throws inside a promise executor: the call is rejected
Throws(o, store, arg) ==
  \/ o = "put" /\ ~ValidValue(store, arg)
  \/ o = "bulkPut" /\ \E i \in 1..Len(arg) : ~ValidValue(store, arg[i])

(***************************************************************************)
(* Notifications: event names are <<collection, "change">> and             *)
(* <<"db", "reset">>.                                                      *)
(***************************************************************************)
ChangeEvent(store) == <<store, "change">>

DbReset == <<"db", "reset">>

EventNames == { ChangeEvent(s) : s \in Targets } \cup { DbReset }

\* what recordLog dispatches once its add request has succeeded; tx names
\* the transaction whose write the event announces
RecordLogDispatches == << [event |-> ChangeEvent("logs"), tx |-> "log"] >>

\* fault: the call's notification dispatched twice
CallDispatchesTwice(o, store) ==
  LET d == [event |-> IF o = "clearAll" THEN DbReset ELSE ChangeEvent(store),
            tx |-> "data"]
  IN  <<d, d>>

\* fault: a clearAll that announces every collection it emptied
CallDispatchesPerStore(o, store) ==
  IF o = "clearAll"
  THEN [ i \in 1..Len(STORES) |-> [event |-> ChangeEvent(STORES[i]), tx |-> "data"] ]
       \o << [event |-> DbReset, tx |-> "data"] >>
  ELSE << [event |-> ChangeEvent(store), tx |-> "data"] >>

\* what the call dispatches after recordLog has returned
CallDispatches(o, store) ==
  << [event |-> IF o = "clearAll" THEN DbReset ELSE ChangeEvent(store),
      tx |-> "data"] >>

\* EventTarget.dispatchEvent: the listeners of that name, in registration order
Listeners(ls, event) ==
  LET Match(e) == e.event = event
      hit == SelectSeq(ls, Match)
  IN  [ i \in 1..Len(hit) |-> hit[i].handler ]

\* whether the transaction of call n of that kind is still live in queue q
Live(q, n, kind) == \E j \in 1..Len(q) : q[j].n = n /\ q[j].kind = kind

\* the record of the dispatches ds made by call n with transaction queue q
Fired(ds, ls, q, n) ==
  [ i \in 1..Len(ds) |->
      [ event   |-> ds[i].event,
        pending |-> Live(q, n, ds[i].tx),
        invoked |-> Listeners(ls, ds[i].event) ] ]

(***************************************************************************)
(* State.                                                                  *)
(***************************************************************************)
Final == {"idle", "resolved", "rejected"}

\* the store after onupgradeneeded has created the object stores
FreshDb == [ s \in StoreNames |-> EmptyStore ]

\* the store after open() and seed() have run on a fresh database
SeededDb ==
  [ s \in StoreNames |->
      IF s = "meta" THEN [recs |-> {SeedMarker}, ix |-> {}, gen |-> 1]
      ELSE IF s = "profiles"
      THEN StorePut(StorePut(EmptyStore, s, P1), s, P2)
      ELSE IF s = "chats"
      THEN StorePut(StorePut(EmptyStore, s, C1a), s, C2a)
      ELSE IF s = "messages"
      THEN StorePut(StorePut(StorePut(EmptyStore, s, M1a), s, M4), s, M5)
      ELSE IF s = "logs" THEN StorePut(EmptyStore, s, SeedLog)
      ELSE EmptyStore ]

\* the handler runs of one behaviour
MaxTasks == 3

Tasks == 1..MaxTasks

\* a handler of the application that has not been invoked
IdleTask == [ pc |-> "idle", kind |-> "none", arg |-> [none |-> 0], waits |-> {} ]

IdleCall ==
  [ pc |-> "idle", n |-> 0, op |-> "none", store |-> "none", arg |-> <<>>,
    cause |-> "none", committed |-> FALSE, fired |-> <<>>,
    before |-> SeededDb, result |-> {} ]

\* the engine as init() leaves it: connected to a seeded store
Init ==
  /\ db = SeededDb
  /\ txq = <<>>
  /\ call = [ p \in Callers |-> IdleCall ]
  /\ subs = <<>>
  /\ disposers = <<>>
  /\ ncalls = 0
  /\ conn = "open"
  /\ lastKey = SeedLog.id
  /\ task = [ t \in Tasks |-> IdleTask ]
  /\ activeProfileId = P1.id

\* the engine as its constructor leaves it, this.db = null, over a store
\* that is new or was seeded by an earlier session
InitLife ==
  /\ \/ db = FreshDb /\ lastKey = 0
     \/ db = SeededDb /\ lastKey = SeedLog.id
  /\ txq = <<>>
  /\ call = [ p \in Callers |-> IdleCall ]
  /\ subs = <<>>
  /\ disposers = <<>>
  /\ ncalls = 0
  /\ conn = "null"
  /\ task = [ t \in Tasks |-> IdleTask ]
  /\ activeProfileId = 0

(***************************************************************************)
(* Transactions.  Two transactions whose scopes overlap run one after the  *)
(* other, in the order they were created, unless both are readonly.  The   *)
(* writes of a transaction reach db when it completes and never when it    *)
(* aborts.  A readonly transaction is taken off the queue when its request *)
(* has been answered: its completion changes nothing.                      *)
(***************************************************************************)
ReadOnly(tx) == tx.kind = "read"

CanRun(i) ==
  \A j \in 1..(i - 1) :
    \/ txq[j].scope \cap txq[i].scope = {}
    \/ ReadOnly(txq[j]) /\ ReadOnly(txq[i])

\* the contents of the stores after the transaction has completed
Committed(d, tx) == ApplyAll(d, tx.reqs)

\* fault: an abort that undoes only the last request of the transaction
RolledBackPartial(d, tx) ==
  IF Len(tx.reqs) = 0 THEN d
  ELSE ApplyAll(d, SubSeq(tx.reqs, 1, Len(tx.reqs) - 1))

\* the contents of the stores after the transaction has aborted
RolledBack(d, tx) == d

Reject(c, cause) == [c EXCEPT !.pc = "rejected", !.cause = cause]

\* fault: an open() that does not look at this.db
ConnectedNever(cn) == FALSE

\* open(): `if (this.db) return this.db`
Connected(cn) == cn # "null"

\* what get / getAll resolve with: req.result
ReadResult(d, c) ==
  IF c.op = "get" THEN Get(d, c.store, c.arg)
  ELSE GetAll(d, c.store, c.arg.indexName, c.arg.query)

\* fault: a read that appends an audit entry
ReadRequestsWithLog(o, store, arg) ==
  << [op |-> "add", store |-> "logs", arg |-> LogEntry(o, store, arg)] >>

\* the write requests get and getAll place on their transaction
ReadRequests(o, store, arg) == <<>>

\* the transaction the call creates once open() has returned, with the
\* requests the call places on it
BodyTx(p, c) ==
  [ n |-> c.n,
    kind |-> IF c.op \in Reads THEN "read" ELSE "data",
    owner |-> IF Throws(c.op, c.store, c.arg) THEN 0 ELSE p,
    scope |-> IF c.op \in Reads THEN {c.store} ELSE Scope(c.op, c.store),
    reqs |-> IF c.op \in Reads THEN ReadRequests(c.op, c.store, c.arg)
             ELSE TxRequests(c.op, c.store, c.arg),
    ran |-> FALSE ]

\* fault: a transaction() that is given a working connection again when
\* the handle it holds is closed
EnteredReconnects(p, c, cn) ==
  IF c.op = "open"
  THEN [call |-> [c EXCEPT !.pc = "resolved"], txs |-> <<>>]
  ELSE IF Throws(c.op, c.store, c.arg)
  THEN [call |-> Reject(c, "DataError"), txs |-> <<BodyTx(p, c)>>]
  ELSE [call |-> [c EXCEPT !.pc = IF c.op \in Reads THEN "read" ELSE "requests"],
        txs |-> <<BodyTx(p, c)>>]

\* open() has returned this.db to call c, the handle being in state cn.
\* open() itself resolves; any other call goes on to db.transaction(...),
\* which throws InvalidStateError on a closed handle, and places its
\* requests
Entered(p, c, cn) ==
  IF c.op = "open"
  THEN [call |-> [c EXCEPT !.pc = "resolved"], txs |-> <<>>]
  ELSE IF cn = "closed"
  THEN [call |-> Reject(c, "InvalidStateError"), txs |-> <<>>]
  ELSE IF Throws(c.op, c.store, c.arg)
  THEN [call |-> Reject(c, "DataError"), txs |-> <<BodyTx(p, c)>>]
  ELSE [call |-> [c EXCEPT !.pc = IF c.op \in Reads THEN "read" ELSE "requests"],
        txs |-> <<BodyTx(p, c)>>]

\* a call of the engine up to its first wait.  Every call starts with
\* open(): on an engine whose this.db is set it returns the handle at
\* once, otherwise indexedDB.open is requested.  Call slots are
\* interchangeable: a call takes the lowest free one
CallStart(p, o, in) ==
  /\ ncalls < MaxCalls
  /\ call[p].pc \in Final
  /\ \A q \in Callers : q < p => call[q].pc \notin Final
  /\ LET n == ncalls + 1
         c == [ pc |-> "connecting", n |-> n, op |-> o,
                store |-> in.store, arg |-> in.arg, cause |-> "none",
                committed |-> FALSE, fired |-> <<>>, before |-> db,
                result |-> {} ]
         e == Entered(p, c, conn)
     IN  /\ call' = [call EXCEPT ![p] = IF Connected(conn) THEN e.call ELSE c]
         /\ txq' = IF Connected(conn) THEN txq \o e.txs ELSE txq
         /\ ncalls' = n
  /\ UNCHANGED <<db, subs, disposers, conn, lastKey, app>>

\* the read of the seeded marker: this.get('meta', 'seeded')
MarkerTx(p, n) ==
  [ n |-> n, kind |-> "read", owner |-> p, scope |-> {"meta"},
    reqs |-> <<>>, ran |-> FALSE ]

\* indexedDB.open succeeds: this.db is assigned, onversionchange is set,
\* and open() goes on to read the marker.  After another context has
\* raised the version the request can only fail
OpenConnected(p) ==
  /\ call[p].pc = "connecting"
  /\ conn # "closed"
  /\ conn' = "open"
  /\ call' = [call EXCEPT ![p].pc = "marker"]
  /\ txq' = Append(txq, MarkerTx(p, call[p].n))
  /\ UNCHANGED <<db, subs, disposers, ncalls, lastKey, app>>

\* fault: an engine that keeps the handle of the failed request
OpenFailsKeepsHandle(p) ==
  /\ call[p].pc = "connecting"
  /\ call' = [call EXCEPT ![p] = Reject(call[p], "OpenError")]
  /\ conn' = "open"
  /\ UNCHANGED <<db, txq, subs, disposers, ncalls, lastKey, app>>

\* indexedDB.open fails (req.onerror): this.db is not assigned
OpenFails(p) ==
  /\ call[p].pc = "connecting"
  /\ call' = [call EXCEPT ![p] = Reject(call[p], "OpenError")]
  /\ UNCHANGED <<db, txq, subs, disposers, ncalls, conn, lastKey, app>>

\* the puts of seed(): every item of every store but meta, in the order
\* of STORES
RECURSIVE SeedPuts(_)
SeedPuts(i) ==
  IF i > Len(STORES) THEN <<>>
  ELSE (IF STORES[i] = "meta" THEN <<>>
        ELSE [ k \in 1..Len(SeedItems(STORES[i])) |->
                 PutRequest(STORES[i], SeedItems(STORES[i])[k]) ])
       \o SeedPuts(i + 1)

\* fault: a seed() that does not put the marker on its transaction
SeedRequestsNoMarker == SeedPuts(1)

\* the requests of seed()'s transaction: the puts, then the marker
SeedRequests == SeedPuts(1) \o << PutRequest("meta", SeedMarker) >>

\* seed(): fetch and response.json() succeed, the transaction over STORES
\* is created and the puts are placed
FetchOk(p) ==
  /\ call[p].pc = "fetch"
  /\ IF conn = "closed"
     THEN /\ call' = [call EXCEPT ![p] = Reject(call[p], "InvalidStateError")]
          /\ txq' = txq
     ELSE /\ call' = [call EXCEPT ![p].pc = "seedRequests"]
          /\ txq' = Append(txq, [ n |-> call[p].n, kind |-> "data", owner |-> p,
                                  scope |-> StoreNames, reqs |-> SeedRequests,
                                  ran |-> FALSE ])
  /\ UNCHANGED <<db, subs, disposers, ncalls, conn, lastKey, app>>

\* seed(): fetch or response.json() fails
FetchFails(p) ==
  /\ call[p].pc = "fetch"
  /\ call' = [call EXCEPT ![p] = Reject(call[p], "FetchError")]
  /\ UNCHANGED <<db, txq, subs, disposers, ncalls, conn, lastKey, app>>

\* whether call c awaits inside seed()
InSeed(c) == c.pc \in {"fetch", "seedRequests", "seedComplete", "seedLog"}

\* every request of the transaction succeeds.  The owner of a data
\* transaction goes on to await oncomplete; the owner of recordLog's
\* transaction returns from recordLog, dispatches and resolves, or
\* returns from seed() and open(), while that transaction is still to
\* complete; the owner of a read gets its result, and open() goes on to
\* seed() when the marker it read is absent
TxRunOk(i) ==
  /\ i \in 1..Len(txq)
  /\ ~txq[i].ran
  /\ CanRun(i)
  /\ CanSucceed(db, txq[i].reqs)
  /\ LET tx == txq[i]
         p  == tx.owner
         c  == call[p]
         q2 == IF tx.kind = "read" THEN RemoveAt(txq, i)
               ELSE [txq EXCEPT ![i].ran = TRUE,
                                ![i].owner = IF tx.kind = "log" THEN 0 ELSE tx.owner]
         logged == [c EXCEPT !.fired = c.fired \o Fired(RecordLogDispatches, subs, q2, tx.n)]
         e  == IF c.pc = "seedLog"
               THEN (IF c.op = "seed"
                     THEN [call |-> [logged EXCEPT !.pc = "resolved"], txs |-> <<>>]
                     ELSE Entered(p, logged, conn))
               ELSE Entered(p, c, conn)
     IN  /\ db' = IF tx.kind = "read" THEN Committed(db, tx) ELSE db
         /\ IF p = 0 THEN call' = call /\ txq' = q2
            ELSE IF tx.kind = "data"
            THEN /\ call' = [call EXCEPT ![p].pc = IF c.pc = "seedRequests"
                                                  THEN "seedComplete" ELSE "complete"]
                 /\ txq' = q2
            ELSE IF tx.kind = "log"
            THEN IF c.pc = "seedLog"
                 THEN call' = [call EXCEPT ![p] = e.call] /\ txq' = q2 \o e.txs
                 ELSE /\ call' = [call EXCEPT
                           ![p].pc = "resolved",
                           ![p].fired =
                              c.fired
                              \o Fired(RecordLogDispatches
                                       \o CallDispatches(c.op, c.store),
                                       subs, q2, tx.n)]
                      /\ txq' = q2
            ELSE IF c.pc = "marker"
            THEN IF Get(db, "meta", SeedMarker.key) # {}
                 THEN call' = [call EXCEPT ![p] = e.call] /\ txq' = q2 \o e.txs
                 ELSE call' = [call EXCEPT ![p].pc = "fetch"] /\ txq' = q2
            ELSE /\ call' = [call EXCEPT ![p].pc = "resolved",
                                         ![p].result = ReadResult(db, c)]
                 /\ txq' = q2
  /\ UNCHANGED <<subs, disposers, ncalls, conn, lastKey, app>>

\* a request of the transaction fails: the promise of the request is
\* rejected with req.error, and the error event, which no handler
\* prevents, aborts the transaction
TxRunError(i) ==
  /\ i \in 1..Len(txq)
  /\ ~txq[i].ran
  /\ CanRun(i)
  /\ Len(txq[i].reqs) > 0 \/ txq[i].kind = "read"
  /\ LET tx == txq[i]
         p  == tx.owner
     IN  /\ db' = RolledBack(db, tx)
         /\ txq' = RemoveAt(txq, i)
         /\ call' =
              IF p = 0 THEN call
              ELSE [call EXCEPT ![p] =
                      Reject(call[p], IF tx.kind = "log" THEN "AuditRequestError"
                                      ELSE "RequestError")]
  /\ UNCHANGED <<subs, disposers, ncalls, conn, lastKey, app>>

\* the action name recordLog is given by the call awaiting at c
AuditAction(c) == IF InSeed(c) THEN "seed" ELSE c.op

\* fault: a recordLog that puts its entry under a fixed id
AuditTxPutFixedId(p, n) ==
  [ n |-> n, kind |-> "log", owner |-> p, scope |-> {"logs"},
    reqs |-> << [op |-> "put", store |-> "logs",
                 arg |-> LogEntryFixedId(call[p].op, call[p].store, call[p].arg)] >>,
    ran |-> FALSE ]

\* recordLog up to its await: a transaction on logs with one add request
AuditTx(p, n) ==
  [ n |-> n, kind |-> "log", owner |-> p, scope |-> {"logs"},
    reqs |-> << [op |-> "add", store |-> "logs",
                 arg |-> LogEntry(AuditAction(call[p]), call[p].store, call[p].arg)] >>,
    ran |-> FALSE ]

\* the transaction completes (oncomplete); a call awaiting it goes on to
\* recordLog, whose db.transaction throws on a closed handle
TxComplete(i) ==
  /\ i \in 1..Len(txq)
  /\ txq[i].ran
  /\ LET tx == txq[i]
         p  == tx.owner
     IN  /\ db' = Committed(db, tx)
         /\ txq' = IF p = 0 \/ conn = "closed" THEN RemoveAt(txq, i)
                   ELSE Append(RemoveAt(txq, i), AuditTx(p, tx.n))
         /\ lastKey' = IF tx.kind = "log"
                       THEN AssignedKey(db["logs"], "logs", tx.reqs[1].arg)
                       ELSE lastKey
         /\ call' = IF p = 0 THEN call
                    ELSE IF conn = "closed"
                    THEN [call EXCEPT ![p] =
                            Reject([call[p] EXCEPT !.committed = TRUE],
                                   "InvalidStateError")]
                    ELSE [call EXCEPT
                            ![p].pc = IF call[p].pc = "seedComplete"
                                      THEN "seedLog" ELSE "log",
                            ![p].committed = TRUE]
  /\ UNCHANGED <<subs, disposers, ncalls, conn, app>>

\* fault: an engine that places the requests again when the
\* transaction aborts
TxAbortRetries(i) ==
  /\ i \in 1..Len(txq)
  /\ txq[i].ran
  /\ LET tx == txq[i]
         p  == tx.owner
     IN  /\ db' = RolledBack(db, tx)
         /\ txq' = IF p = 0 THEN RemoveAt(txq, i)
                   ELSE Append(RemoveAt(txq, i), [tx EXCEPT !.ran = FALSE])
         /\ call' = IF p = 0 THEN call
                    ELSE [call EXCEPT ![p].pc = "requests"]
  /\ UNCHANGED <<subs, disposers, ncalls, conn, lastKey, app>>

\* the transaction aborts after its requests succeeded (onabort)
TxAbort(i) ==
  /\ i \in 1..Len(txq)
  /\ txq[i].ran
  /\ LET tx == txq[i]
         p  == tx.owner
     IN  /\ db' = RolledBack(db, tx)
         /\ txq' = RemoveAt(txq, i)
         /\ call' = IF p = 0 THEN call
                    ELSE [call EXCEPT ![p] = Reject(call[p], "AbortError")]
  /\ UNCHANGED <<subs, disposers, ncalls, conn, lastKey, app>>

\* another context raises the version of the database: onversionchange
\* closes the connection, this.db keeps the closed handle.  The
\* transactions already created run to their end
VersionChange ==
  /\ conn = "open"
  /\ conn' = "closed"
  /\ UNCHANGED <<db, txq, call, subs, disposers, ncalls, lastKey, app>>

\* the most subscriptions held at a time: subscribe calls whose disposer
\* has not been called
MaxSubs == 1

\* the same where a specification follows a handler that is subscribed
\* more than once
MaxHeld == 2

\* subscribe(name, handler) while fewer than max subscriptions are held:
\* addEventListener ignores a listener that is already registered for the
\* name; the call returns a disposer that closes over name and handler
SubscribeWithin(max, name, h) ==
  /\ Len(disposers) < max
  /\ subs' = IF \E j \in 1..Len(subs) : subs[j].event = name /\ subs[j].handler = h
             THEN subs
             ELSE Append(subs, [event |-> name, handler |-> h])
  /\ disposers' = Append(disposers, [event |-> name, handler |-> h])
  /\ UNCHANGED <<db, txq, call, ncalls, conn, lastKey, app>>

Subscribe(name, h) == SubscribeWithin(MaxSubs, name, h)

\* the disposer that the j-th subscription held was returned is called:
\* removeEventListener(name, handler) removes the listener of that name
\* and handler
Dispose(j) ==
  /\ j \in 1..Len(disposers)
  /\ LET d == disposers[j]
         Other(e) == ~(e.event = d.event /\ e.handler = d.handler)
     IN  subs' = SelectSeq(subs, Other)
  /\ disposers' = RemoveAt(disposers, j)
  /\ UNCHANGED <<db, txq, call, ncalls, conn, lastKey, app>>

(***************************************************************************)
(* The handlers of the application.  A handler is a chain of engine calls: *)
(* each continuation runs as a microtask of the step that settles the      *)
(* awaited call, so nothing else happens between the two (Settled).  The   *)
(* rendering a handler ends with only reads and is left out.               *)
(***************************************************************************)
\* the ids generateId('like') may return
LikeIds == {1, 2}

PostIds == {1}

LikeInputs == { [postId |-> q, viewer |-> v] : q \in PostIds, v \in BOOLEAN }

\* profile 3 is never stored
ProfileInputs == { [profileId |-> r] : r \in {1, 2, 3} }

ChatInputs == { [chatId |-> c, action |-> a] : c \in {1}, a \in {"delete", "pin"} }

ResetInputs == { [none |-> 0] }

\* the chat quick actions and the messages sent where handlers overlap:
\* chat 2, and the id generateId('msg') returns for the new message
ChatOverlapInputs == { [chatId |-> 2, action |-> a] : a \in {"delete", "pin"} }

SendInputs == { [chatId |-> 2, id |-> 6] }

TaskKinds == {"like", "setActiveProfile", "chatAction", "reset"}

TaskInputs(kind) ==
  IF kind = "like" THEN LikeInputs
  ELSE IF kind = "setActiveProfile" THEN ProfileInputs
  ELSE IF kind = "chatAction" THEN ChatInputs
  ELSE IF kind = "send" THEN SendInputs
  ELSE ResetInputs

Lowest(S) == CHOOSE x \in S : \A y \in S : x <= y

\* the records of a getAll result in the order of their keys
RECURSIVE InKeyOrder(_)
InKeyOrder(rs) ==
  IF rs = {} THEN <<>>
  ELSE LET r == CHOOSE x \in rs : \A y \in rs : x.id <= y.id
       IN  <<r>> \o InKeyOrder(rs \ {r})

\* an engine call made by a handler, up to its first wait, on the engine
\* state st = [call, txq, ncalls, slots]; slots are the call slots the
\* handler has taken in this step.  seed() does not go through open()
Launch(st, o, in) ==
  LET free == { p \in Callers : st.call[p].pc \in Final } \ st.slots
      p == Lowest(free)
      n == st.ncalls + 1
      c == [ pc |-> "connecting", n |-> n, op |-> o,
             store |-> in.store, arg |-> in.arg, cause |-> "none",
             committed |-> FALSE, fired |-> <<>>, before |-> db,
             result |-> {} ]
      e == IF o = "seed" THEN [call |-> [c EXCEPT !.pc = "fetch"], txs |-> <<>>]
           ELSE IF Connected(conn) THEN Entered(p, c, conn)
           ELSE [call |-> c, txs |-> <<>>]
  IN  [ call |-> [st.call EXCEPT ![p] = e.call], txq |-> st.txq \o e.txs,
        ncalls |-> n, slots |-> st.slots \cup {p} ]

\* Promise.all(messages.map((msg) => dataLayer.delete('messages', msg.id)))
RECURSIVE LaunchDeletes(_, _)
LaunchDeletes(st, msgs) ==
  IF Len(msgs) = 0 THEN st
  ELSE LaunchDeletes(Launch(st, "delete", [store |-> "messages", arg |-> Head(msgs).id]),
                     Tail(msgs))

\* the message onSendMessage builds when no message is being edited
NewMessage(arg) == [id |-> arg.id, chatId |-> arg.chatId, text |-> "hi"]

Engine == [ call |-> call, txq |-> txq, ncalls |-> ncalls, slots |-> {} ]

GetAllOf(store) == [store |-> store, arg |-> [indexName |-> NoIndex, query |-> 0]]

\* the first engine call of a handler
FirstCall(kind, arg) ==
  IF kind = "like" THEN Launch(Engine, "getAll", GetAllOf("likes"))
  ELSE IF kind = "setActiveProfile" THEN Launch(Engine, "getAll", GetAllOf("profiles"))
  ELSE IF kind = "chatAction" THEN Launch(Engine, "get", [store |-> "chats", arg |-> arg.chatId])
  ELSE IF kind = "send" THEN Launch(Engine, "put", [store |-> "messages", arg |-> NewMessage(arg)])
  ELSE Launch(Engine, "clearAll", [store |-> "all", arg |-> 0])

FirstPc(kind) ==
  IF kind \in {"like", "setActiveProfile"} THEN "read"
  ELSE IF kind = "chatAction" THEN "chat"
  ELSE IF kind = "send" THEN "sent"
  ELSE "cleared"

Running(t) == task[t].pc \notin {"idle", "done", "failed"}

\* an awaited call of handler t has been rejected, or all of them have
\* resolved: the continuation of t is the next thing to run
Rejected(t) == \E p \in task[t].waits : call[p].pc = "rejected"

Ready(t) ==
  /\ Running(t)
  /\ Rejected(t) \/ \A p \in task[t].waits : call[p].pc = "resolved"

Settled == \A t \in Tasks : ~Ready(t)

\* the most handlers running at a time
MaxOverlap == 2

\* a handler is invoked while fewer than MaxOverlap handlers are running
TaskStart(t, kind, arg) ==
  /\ Settled
  /\ task[t].pc = "idle"
  /\ \A u \in Tasks : u < t => task[u].pc # "idle"
  /\ Cardinality({ u \in Tasks : Running(u) }) < MaxOverlap
  /\ \E p \in Callers : call[p].pc \in Final
  /\ LET st == FirstCall(kind, arg)
     IN  /\ call' = st.call
         /\ txq' = st.txq
         /\ ncalls' = st.ncalls
         /\ task' = [task EXCEPT ![t] = [ pc |-> FirstPc(kind), kind |-> kind,
                                          arg |-> arg, waits |-> st.slots ]]
  /\ UNCHANGED <<db, subs, disposers, conn, lastKey, activeProfileId>>

\* what the one awaited call of handler t resolved with
Awaited(t) == call[Lowest(task[t].waits)].result

\* fault: a toggle that never finds the like of the pair
ExistingNever(likes, postId) == {}

\* fault: a find that returns the last match
Last(rs) ==
  IF rs = {} THEN {} ELSE { CHOOSE l \in rs : \A m \in rs : l.id >= m.id }

\* Array.prototype.find on a getAll result: the first match in key order,
\* as a set of at most one record
First(rs) ==
  IF rs = {} THEN {} ELSE { CHOOSE l \in rs : \A m \in rs : l.id <= m.id }

\* likes.find((l) => l.postId === postId && l.profileId === state.activeProfileId)
Existing(likes, postId) ==
  First({ l \in likes : l.postId = postId /\ l.profileId = activeProfileId })

\* { ...chat, pinned: !chat.pinned }
PinToggled(chat) ==
  IF "pinned" \in DOMAIN chat THEN [chat EXCEPT !.pinned = ~chat.pinned]
  ELSE [ f \in DOMAIN chat \cup {"pinned"} |-> IF f = "pinned" THEN TRUE ELSE chat[f] ]

\* { ...(await dataLayer.get('chats', chatId)), lastMessageId: message.id }:
\* chats is what get resolved with, no record or one; spreading undefined
\* gives a record without id
WithLastMessage(chats, chatId, id) ==
  IF chats = {} THEN [lastMessageId |-> id]
  ELSE LET chat == CHOOSE c \in chats : TRUE
       IN  [ f \in DOMAIN chat \cup {"lastMessageId"} |->
               IF f = "lastMessageId" THEN id ELSE chat[f] ]

\* fault: a setActiveProfile that rewrites only the profile it activates
ActivatedOnly(profiles, profileId) ==
  LET Hit(r) == r.id = profileId
  IN  SelectSeq([ i \in 1..Len(profiles) |-> [profiles[i] EXCEPT !.active = TRUE] ], Hit)

\* profiles.map((profile) => ({ ...profile, active: profile.id === profileId }))
Activated(profiles, profileId) ==
  [ i \in 1..Len(profiles) |-> [profiles[i] EXCEPT !.active = (profiles[i].id = profileId)] ]

\* the continuation of handler t after its await: the next state of the
\* handler and of the engine, the like id being what generateId returns
Continuation(t, id) ==
  LET k == task[t]
      done == [task |-> [k EXCEPT !.pc = "done", !.waits = {}], st |-> Engine]
      Goes(pc, st) == [task |-> [k EXCEPT !.pc = pc, !.waits = st.slots], st |-> st]
  IN  IF Rejected(t)
      THEN [task |-> [k EXCEPT !.pc = "failed", !.waits = {}], st |-> Engine]
      ELSE IF k.kind = "like"
      THEN IF k.pc = "read"
           THEN LET existing == Existing(Awaited(t), k.arg.postId)
                IN  IF existing # {}
                    THEN Goes("write", Launch(Engine, "delete",
                              [store |-> "likes", arg |-> (Lowest({ l.id : l \in existing }))]))
                    ELSE Goes("write", Launch(Engine, "put",
                              [store |-> "likes",
                               arg |-> [id |-> id, postId |-> k.arg.postId,
                                        profileId |-> activeProfileId]]))
           ELSE IF k.pc = "write" /\ k.arg.viewer
           THEN Goes("refresh", Launch(Engine, "getAll", GetAllOf("likes")))
           ELSE done
      ELSE IF k.kind = "setActiveProfile"
      THEN IF k.pc = "read"
           THEN Goes("write", Launch(Engine, "bulkPut",
                     [store |-> "profiles",
                      arg |-> Activated(InKeyOrder(Awaited(t)), k.arg.profileId)]))
           ELSE done
      ELSE IF k.kind = "chatAction"
      THEN IF k.pc = "chat"
           THEN IF Awaited(t) = {} THEN done
                ELSE IF k.arg.action = "delete"
                THEN Goes("deleted", Launch(Engine, "delete",
                          [store |-> "chats", arg |-> k.arg.chatId]))
                ELSE Goes("write", Launch(Engine, "put",
                          [store |-> "chats",
                           arg |-> PinToggled(CHOOSE c \in Awaited(t) : TRUE)]))
           ELSE IF k.pc = "deleted"
           THEN Goes("messages", Launch(Engine, "getAll",
                     [store |-> "messages",
                      arg |-> [indexName |-> "by_chat", query |-> k.arg.chatId]]))
           ELSE IF k.pc = "messages" /\ Awaited(t) # {}
           THEN Goes("cascade", LaunchDeletes(Engine, InKeyOrder(Awaited(t))))
           ELSE done
      ELSE IF k.kind = "send"
      THEN IF k.pc = "sent"
           THEN Goes("lookup", Launch(Engine, "get", [store |-> "chats", arg |-> k.arg.chatId]))
           ELSE IF k.pc = "lookup"
           THEN Goes("write", Launch(Engine, "put",
                     [store |-> "chats",
                      arg |-> WithLastMessage(Awaited(t), k.arg.chatId, k.arg.id)]))
           ELSE done
      ELSE IF k.pc = "cleared"
      THEN Goes("seeded", Launch(Engine, "seed", [store |-> "all", arg |-> 0]))
      ELSE done

\* the continuation of handler t runs; setActiveProfile assigns
\* state.activeProfileId once its bulkPut has resolved
Continue(t, id) ==
  /\ Ready(t)
  /\ LET nx == Continuation(t, id)
     IN  /\ task' = [task EXCEPT ![t] = nx.task]
         /\ call' = nx.st.call
         /\ txq' = nx.st.txq
         /\ ncalls' = nx.st.ncalls
         /\ activeProfileId' =
              IF task[t].kind = "setActiveProfile" /\ task[t].pc = "write" /\ ~Rejected(t)
              THEN task[t].arg.profileId
              ELSE activeProfileId
  /\ UNCHANGED <<db, subs, disposers, conn, lastKey>>

Next ==
  \/ \E p \in Callers, o \in Ops : \E in \in Inputs(o) : CallStart(p, o, in)
  \/ \E i \in 1..(2 * MaxCalls) : TxRunOk(i)
  \/ \E i \in 1..(2 * MaxCalls) : TxRunError(i)
  \/ \E i \in 1..(2 * MaxCalls) : TxComplete(i)
  \/ \E i \in 1..(2 * MaxCalls) : TxAbort(i)
  \/ \E name \in EventNames, h \in Handlers : Subscribe(name, h)
  \/ \E j \in 1..MaxSubs : Dispose(j)

Spec == Init /\ [][Next]_vars

(***************************************************************************)
(* The same engine with its calls issued one at a time: a call starts once *)
(* the call before it has ended and no transaction is left.                *)
(***************************************************************************)
Quiescent == Len(txq) = 0 /\ \A p \in Callers : call[p].pc \in Final

CallStartSeq(p, o, in) == Quiescent /\ CallStart(p, o, in)

NextSeq ==
  \/ \E p \in Callers, o \in Ops : \E in \in Inputs(o) : CallStartSeq(p, o, in)
  \/ \E i \in 1..(2 * MaxCalls) : TxRunOk(i)
  \/ \E i \in 1..(2 * MaxCalls) : TxRunError(i)
  \/ \E i \in 1..(2 * MaxCalls) : TxComplete(i)
  \/ \E i \in 1..(2 * MaxCalls) : TxAbort(i)
  \/ \E name \in EventNames, h \in Handlers : Subscribe(name, h)
  \/ \E j \in 1..MaxSubs : Dispose(j)

SpecSeq == Init /\ [][NextSeq]_vars

(***************************************************************************)
(* The session from the constructor on, its calls issued one at a time:    *)
(* the first call connects and, on a store without the marker, seeds; get, *)
(* getAll and open() are among the calls; another context may raise the    *)
(* version of the database.                                                *)
(***************************************************************************)
NextLifeSeq ==
  \/ \E p \in Callers, o \in LifeOps : \E in \in LifeInputs(o) : CallStartSeq(p, o, in)
  \/ \E p \in Callers : OpenConnected(p)
  \/ \E p \in Callers : OpenFails(p)
  \/ \E p \in Callers : FetchOk(p)
  \/ \E p \in Callers : FetchFails(p)
  \/ \E i \in 1..(2 * MaxCalls) : TxRunOk(i)
  \/ \E i \in 1..(2 * MaxCalls) : TxRunError(i)
  \/ \E i \in 1..(2 * MaxCalls) : TxComplete(i)
  \/ \E i \in 1..(2 * MaxCalls) : TxAbort(i)
  \/ VersionChange
  \/ \E name \in EventNames, h \in Handlers : Subscribe(name, h)
  \/ \E j \in 1..MaxSubs : Dispose(j)

SpecLifeSeq == InitLife /\ [][NextLifeSeq]_vars

(***************************************************************************)
(* The connected engine with overlapping calls, reads among them, while    *)
(* another context may raise the version of the database.  As in the       *)
(* application, nothing subscribes.                                        *)
(***************************************************************************)
NextSession ==
  \/ \E p \in Callers, o \in LifeOps : \E in \in LifeInputs(o) : CallStart(p, o, in)
  \/ \E i \in 1..(2 * MaxCalls) : TxRunOk(i)
  \/ \E i \in 1..(2 * MaxCalls) : TxRunError(i)
  \/ \E i \in 1..(2 * MaxCalls) : TxComplete(i)
  \/ \E i \in 1..(2 * MaxCalls) : TxAbort(i)
  \/ VersionChange

SpecSession == Init /\ [][NextSession]_vars

(***************************************************************************)
(* The start of a session with overlapping calls: from the constructor on, *)
(* a call may be made while an earlier one is still connecting or seeding. *)
(* Nothing subscribes and nothing clears the store.                        *)
(***************************************************************************)
StartOps == {"open", "get", "put", "delete"}

NextStart ==
  \/ \E p \in Callers, o \in StartOps : \E in \in LifeInputs(o) : CallStart(p, o, in)
  \/ \E p \in Callers : OpenConnected(p)
  \/ \E p \in Callers : OpenFails(p)
  \/ \E p \in Callers : FetchOk(p)
  \/ \E p \in Callers : FetchFails(p)
  \/ \E i \in 1..(2 * MaxCalls) : TxRunOk(i)
  \/ \E i \in 1..(2 * MaxCalls) : TxRunError(i)
  \/ \E i \in 1..(2 * MaxCalls) : TxComplete(i)
  \/ \E i \in 1..(2 * MaxCalls) : TxAbort(i)

SpecStart == InitLife /\ [][NextStart]_vars

(***************************************************************************)
(* The connected engine with its calls issued one at a time, and a         *)
(* consumer that may subscribe a handler it has already subscribed.        *)
(***************************************************************************)
NextSubs ==
  \/ \E p \in Callers, o \in Ops : \E in \in Inputs(o) : CallStartSeq(p, o, in)
  \/ \E i \in 1..(2 * MaxCalls) : TxRunOk(i)
  \/ \E i \in 1..(2 * MaxCalls) : TxRunError(i)
  \/ \E i \in 1..(2 * MaxCalls) : TxComplete(i)
  \/ \E i \in 1..(2 * MaxCalls) : TxAbort(i)
  \/ \E name \in EventNames, h \in Handlers : SubscribeWithin(MaxHeld, name, h)
  \/ \E j \in 1..MaxHeld : Dispose(j)

SpecSubs == Init /\ [][NextSubs]_vars

(***************************************************************************)
(* The application on the connected engine, its handlers invoked one at a  *)
(* time: a handler is invoked once the one before it has ended and no      *)
(* transaction is left.                                                    *)
(***************************************************************************)
\* the handler runs of one behaviour of that application
MaxSeqTasks == 2

TaskStartSeq(t, kind, arg) ==
  /\ t <= MaxSeqTasks
  /\ Quiescent
  /\ \A u \in Tasks : ~Running(u)
  /\ TaskStart(t, kind, arg)

NextApp ==
  \/ \E t \in Tasks, kind \in TaskKinds : \E arg \in TaskInputs(kind) :
       TaskStartSeq(t, kind, arg)
  \/ \E t \in Tasks, id \in LikeIds : Continue(t, id)
  \/ \E p \in Callers : Settled /\ FetchOk(p)
  \/ \E p \in Callers : Settled /\ FetchFails(p)
  \/ \E i \in 1..(2 * MaxCalls) : Settled /\ TxRunOk(i)
  \/ \E i \in 1..(2 * MaxCalls) : Settled /\ TxRunError(i)
  \/ \E i \in 1..(2 * MaxCalls) : Settled /\ TxComplete(i)
  \/ \E i \in 1..(2 * MaxCalls) : Settled /\ TxAbort(i)

SpecApp == Init /\ [][NextApp]_vars

(***************************************************************************)
(* The feed with overlapping handlers: a like toggle may be invoked while  *)
(* another is running.                                                     *)
(***************************************************************************)
NextLikes ==
  \/ \E t \in Tasks : \E arg \in LikeInputs : TaskStart(t, "like", arg)
  \/ \E t \in Tasks, id \in LikeIds : Continue(t, id)
  \/ \E i \in 1..(2 * MaxCalls) : Settled /\ TxRunOk(i)
  \/ \E i \in 1..(2 * MaxCalls) : Settled /\ TxRunError(i)
  \/ \E i \in 1..(2 * MaxCalls) : Settled /\ TxComplete(i)
  \/ \E i \in 1..(2 * MaxCalls) : Settled /\ TxAbort(i)

SpecLikes == Init /\ [][NextLikes]_vars

(***************************************************************************)
(* The profile switcher with overlapping handlers: setActiveProfile may be *)
(* invoked while another setActiveProfile is running.                      *)
(***************************************************************************)
NextProfiles ==
  \/ \E t \in Tasks : \E arg \in ProfileInputs : TaskStart(t, "setActiveProfile", arg)
  \/ \E t \in Tasks : Continue(t, Lowest(LikeIds))
  \/ \E i \in 1..(2 * MaxCalls) : Settled /\ TxRunOk(i)
  \/ \E i \in 1..(2 * MaxCalls) : Settled /\ TxRunError(i)
  \/ \E i \in 1..(2 * MaxCalls) : Settled /\ TxComplete(i)
  \/ \E i \in 1..(2 * MaxCalls) : Settled /\ TxAbort(i)

SpecProfiles == Init /\ [][NextProfiles]_vars

(***************************************************************************)
(* The chat list and the composer with overlapping handlers: a chat quick  *)
(* action or a send may be invoked while another is running.               *)
(***************************************************************************)
\* the handler runs of one behaviour of the chat list and the composer
MaxChatTasks == 2

NextChats ==
  \/ \E t \in 1..MaxChatTasks : \E arg \in ChatOverlapInputs :
       TaskStart(t, "chatAction", arg)
  \/ \E t \in 1..MaxChatTasks : \E arg \in SendInputs : TaskStart(t, "send", arg)
  \/ \E t \in Tasks : Continue(t, Lowest(LikeIds))
  \/ \E i \in 1..Len(txq) : Settled /\ TxRunOk(i)
  \/ \E i \in 1..Len(txq) : Settled /\ TxRunError(i)
  \/ \E i \in 1..Len(txq) : Settled /\ TxComplete(i)
  \/ \E i \in 1..Len(txq) : Settled /\ TxAbort(i)

SpecChats == Init /\ [][NextChats]_vars

(***************************************************************************)
(* Properties.                                                             *)
(***************************************************************************)
\* the collections that hold application data
DataCollections == StoreNames \ {"meta", "logs"}

ChatIds == {1, 2, 3}

ProfileIds == {1, 2, 3}

\* what getAll(store) returns now, and what it returned when call p started
Now(s) == GetAll(db, s, NoIndex, 0)

Before(p, s) == GetAll(call[p].before, s, NoIndex, 0)

\* the call's transaction aborted: a request failed, or onabort fired
TxAborted(p) ==
  call[p].pc = "rejected" /\ call[p].cause \in {"RequestError", "AbortError"}

\* C1 (checked with the calls issued one at a time): when the transaction
\* of bulkPut(collection, [r1..rn]) has aborted, getAll(collection) returns
\* exactly the records it returned before the call: none of r1..rn has
\* become visible.
C1_BulkPutAbortLeavesNothing ==
  \A p \in Callers :
    (call[p].op = "bulkPut" /\ TxAborted(p))
      => Now(call[p].store) = Before(p, call[p].store)

\* a bulkPut of two records, neither stored before, whose transaction
\* aborted after both put requests had succeeded
C1_Witness ==
  \E p \in Callers :
    /\ call[p].op = "bulkPut"
    /\ call[p].pc = "rejected"
    /\ call[p].cause = "AbortError"
    /\ Len(call[p].arg) = 2
    /\ \A i \in 1..2 : call[p].arg[i] \notin Before(p, call[p].store)

\* C2 (checked with the calls issued one at a time): once a put, bulkPut,
\* delete or clearAll call has been rejected and its transactions are
\* over, every collection the call targeted holds exactly the records it
\* held before the call started.
C2_RejectedLeavesTargetsUnchanged ==
  \A p \in Callers :
    (call[p].pc = "rejected" /\ Len(txq) = 0)
      => \A s \in Scope(call[p].op, call[p].store) : Now(s) = Before(p, s)

LogsNow == Now("logs")

\* the log records that were not in logs when call p started
NewLogs(p) == LogsNow \ Before(p, "logs")

\* C3 (checked with the calls issued one at a time): once a put, delete,
\* bulkPut or clearAll call has resolved and its transactions are over,
\* logs holds exactly one entry it did not hold when the call started,
\* and that entry carries the action name of the call; also when the call
\* targets logs.
C3_OneNewLogEntryPerCall ==
  \A p \in Callers :
    (call[p].pc = "resolved" /\ Len(txq) = 0)
      => /\ Cardinality(NewLogs(p)) = 1
         /\ \A e \in NewLogs(p) : e.action = ActionName(call[p].op)

\* every record of logs is still there, unchanged, after the step
LogsKept == LogsNow \subseteq LogsNow'

\* C4 as stated: over any sequence of the application's calls no log
\* record that once existed is overwritten or deleted.
C4_LogsAppendOnly == [][LogsKept]_vars

\* the step completes a transaction of clearAll or of a bulkPut on logs
CompletesWriteOnLogs ==
  \E i \in 1..Len(txq) :
    /\ txq[i].ran
    /\ txq[i].kind = "data"
    /\ "logs" \in txq[i].scope
    /\ db' = Committed(db, txq[i])
    /\ txq[i].owner # 0 => call'[txq[i].owner].committed

\* C4 as amended: a log record is overwritten or deleted only by the
\* completion of a clearAll transaction or of a bulkPut on logs; no put,
\* bulkPut or delete on another collection, no audit append and no abort
\* removes or changes one, so across those steps the number of log
\* records never decreases.
C4_LogsKeptExceptByClearAllAndImport ==
  [][LogsKept \/ CompletesWriteOnLogs]_vars

\* logs holds the seed entry and the audit entries of two later calls
C4_Witness ==
  /\ SeedLog \in LogsNow
  /\ Cardinality(LogsNow) = 3
  /\ \E e \in LogsNow : e.action = "delete"

Registered(ls, event, h) ==
  \E j \in 1..Len(ls) : ls[j].event = event /\ ls[j].handler = h

\* how often handler h was invoked for the event in the dispatches fs
Invocations(fs, event, h) ==
  Cardinality({ ij \in (1..Len(fs)) \X (1..MaxSubs + 1) :
                  /\ fs[ij[1]].event = event
                  /\ ij[2] <= Len(fs[ij[1]].invoked)
                  /\ fs[ij[1]].invoked[ij[2]] = h })

\* the step in which put call p on a data collection resolves
PutResolves(p) ==
  /\ call[p].op = "put"
  /\ call[p].store \in DataCollections
  /\ call[p].pc = "log"
  /\ call'[p].pc = "resolved"

\* C5 (checked with the calls issued one at a time): a put(c, record) on
\* a data collection c that resolves invokes a listener registered for
\* "<c>:change" exactly once, in the step in which it resolves and not
\* before, and at that moment get(c, key of the record) returns the record.
C5_PutNotifiesOnceAfterWrite ==
  [][ \A p \in Callers :
        PutResolves(p) =>
          /\ \A h \in Handlers :
               Registered(subs, ChangeEvent(call[p].store), h) =>
                 /\ Invocations(call[p].fired, ChangeEvent(call[p].store), h) = 0
                 /\ Invocations(call'[p].fired, ChangeEvent(call[p].store), h) = 1
          /\ Get(db', call[p].store, call[p].arg[KeyPath(call[p].store)])
               = {call[p].arg} ]_vars

\* a put on chats has resolved and its dispatch invoked the listener h1
C5_Witness ==
  \E p \in Callers :
    /\ call[p].op = "put"
    /\ call[p].store = "chats"
    /\ call[p].pc = "resolved"
    /\ \E i \in 1..Len(call[p].fired) :
         /\ call[p].fired[i].event = ChangeEvent("chats")
         /\ call[p].fired[i].invoked = <<"h1">>

\* C6: every notification is dispatched only after the transaction that
\* made the write it announces has completed: no dispatch happens while
\* that transaction is still pending.
C6_DispatchOnlyAfterCommit ==
  \A p \in Callers :
    \A i \in 1..Len(call[p].fired) : ~call[p].fired[i].pending

\* C7: a put, bulkPut or delete call that has ended after its data
\* transaction completed has dispatched "<collection>:change".
C7_CommittedCallHasNotified ==
  \A p \in Callers :
    ( /\ call[p].op \in {"put", "bulkPut", "delete"}
      /\ call[p].pc \in {"resolved", "rejected"}
      /\ call[p].committed )
      => \E i \in 1..Len(call[p].fired) :
           call[p].fired[i].event = ChangeEvent(call[p].store)

\* the data transaction of put call p has completed
PutDone(p) == call[p].op = "put" /\ call[p].committed

\* C8 (checked with the calls issued one at a time): after a put on a key
\* that already held a record, get returns exactly the record of this put,
\* getAll returns it and no other record with that key, and the
\* collection has as many records as before this put.
C8_PutReplacesWholeRecord ==
  \A p \in Callers :
    PutDone(p) =>
      LET s == call[p].store
          k == call[p].arg[KeyPath(s)]
      IN  /\ Get(db, s, k) = {call[p].arg}
          /\ { r \in Now(s) : r[KeyPath(s)] = k } = {call[p].arg}
          /\ Get(call[p].before, s, k) # {}
               => Cardinality(Now(s)) = Cardinality(Before(p, s))

\* message 1 held chatId 2 and a text; a second put wrote it without text
C8_Witness ==
  \E p \in Callers :
    /\ PutDone(p)
    /\ call[p].store = "messages"
    /\ call[p].arg = M1a
    /\ Get(call[p].before, "messages", 1) = {M1b}
    /\ ncalls = 2

\* C9: for every chat id C, getAll('messages', 'by_chat', C) returns
\* exactly the stored messages whose chatId is C.
C9_ByChatIndexExact ==
  \A C \in ChatIds :
    GetAll(db, "messages", "by_chat", C)
      = { m \in Now("messages") : m.chatId = C }

\* message 1 was overwritten from chat 1 to chat 2, message 2 is in chat 1
C9_Witness ==
  /\ Now("messages") = {M1b, M2}
  /\ GetAll(db, "messages", "by_chat", 1) = {M2}
  /\ GetAll(db, "messages", "by_chat", 2) = {M1b}

\* C10: getAll('chats', 'by_participant', P) returns a stored chat exactly
\* when P is in its participants list.
C10_ByParticipantIndexExact ==
  \A c \in Now("chats") : \A P \in ProfileIds :
    (c \in GetAll(db, "chats", "by_participant", P))
      <=> (P \in Range(c.participants))

\* the stored chat has participants [2, 3]: returned for 2 and 3, not for 1
C10_Witness ==
  /\ C1b \in Now("chats")
  /\ C1b \in GetAll(db, "chats", "by_participant", 2)
  /\ C1b \in GetAll(db, "chats", "by_participant", 3)
  /\ C1b \notin GetAll(db, "chats", "by_participant", 1)


\* clearAll call p has resolved, every transaction is over and no other
\* call is in flight
ClearAllOver(p) ==
  /\ call[p].op = "clearAll"
  /\ call[p].pc = "resolved"
  /\ Len(txq) = 0
  /\ \A q \in Callers : call[q].pc \in Final

\* C11 (checked with the calls issued one at a time): once a clearAll()
\* has resolved, with no other call in flight, getAll returns nothing for
\* every collection but logs, the seeded marker is gone from meta, and
\* logs holds exactly one entry, whose action is "reset".
C11_ClearAllLeavesOnlyResetEntry ==
  \A p \in Callers :
    ClearAllOver(p) =>
      /\ \A s \in StoreNames \ {"logs"} : Now(s) = {}
      /\ Get(db, "meta", SeedMarker.key) = {}
      /\ Cardinality(LogsNow) = 1
      /\ \A e \in LogsNow : e.action = "reset"


\* how often the event was dispatched in the dispatches fs
Published(fs, event) ==
  Cardinality({ i \in 1..Len(fs) : fs[i].event = event })

\* C12 as stated: a clearAll() that has resolved has published "db:reset"
\* exactly once and "<collection>:change" for none of the nine collections.
C12_ClearAllPublishesOnlyDbReset ==
  \A p \in Callers :
    (call[p].op = "clearAll" /\ call[p].pc = "resolved")
      => /\ Published(call[p].fired, DbReset) = 1
         /\ \A s \in StoreNames : Published(call[p].fired, ChangeEvent(s)) = 0

\* C12 as amended: a clearAll() that has resolved has published
\* "db:reset" exactly once, as its last dispatch, "logs:change" exactly
\* once before it, and "<collection>:change" for none of the other eight
\* collections; a clearAll() that has not resolved has published no
\* "db:reset".
C12_ClearAllPublishesDbResetAndLogsChange ==
  \A p \in Callers :
    call[p].op = "clearAll" =>
      IF call[p].pc = "resolved"
      THEN /\ Published(call[p].fired, DbReset) = 1
           /\ call[p].fired[Len(call[p].fired)].event = DbReset
           /\ Published(call[p].fired, ChangeEvent("logs")) = 1
           /\ \A s \in StoreNames \ {"logs"} :
                Published(call[p].fired, ChangeEvent(s)) = 0
      ELSE Published(call[p].fired, DbReset) = 0

\* a clearAll() has resolved while listener h1 was registered for "db:reset"
C12_Witness ==
  \E p \in Callers :
    /\ call[p].op = "clearAll"
    /\ call[p].pc = "resolved"
    /\ \E i \in 1..Len(call[p].fired) :
         /\ call[p].fired[i].event = DbReset
         /\ call[p].fired[i].invoked = <<"h1">>


\* C13 (checked with the calls issued one at a time): once a
\* bulkPut(collection, records) has resolved and its transactions are
\* over, every record is stored, logs holds exactly one new audit entry
\* with action "bulkPut" whose payload carries the number of records, and
\* the call has published exactly one notification event.
C13_BulkPutOneEntryOneEvent ==
  \A p \in Callers :
    (call[p].op = "bulkPut" /\ call[p].pc = "resolved" /\ Len(txq) = 0)
      => /\ \A i \in 1..Len(call[p].arg) :
              HasKey(call[p].store, call[p].arg[i])
                => call[p].arg[i] \in Now(call[p].store)
         /\ Cardinality({ e \in NewLogs(p) : e.action = "bulkPut" }) = 1
         /\ \A e \in NewLogs(p) :
              e.action = "bulkPut" => e.payload.count = Len(call[p].arg)
         /\ Len(call[p].fired) = 1

\* delete call p has resolved on a key its collection did not hold when
\* the call started, and every transaction is over
DeleteAbsentOver(p) ==
  /\ call[p].op = "delete"
  /\ call[p].pc = "resolved"
  /\ Get(call[p].before, call[p].store, call[p].arg) = {}
  /\ Len(txq) = 0

\* C14 (checked with the calls issued one at a time): a
\* delete(collection, key) on a key that is not present, once resolved,
\* has left the collection unchanged, has appended exactly one "delete"
\* entry to logs and has published "<collection>:change".
C14_DeleteAbsentLogsAndNotifies ==
  \A p \in Callers :
    DeleteAbsentOver(p) =>
      /\ Now(call[p].store) = Before(p, call[p].store)
      /\ Cardinality({ e \in NewLogs(p) : e.action = "delete" }) = 1
      /\ Published(call[p].fired, ChangeEvent(call[p].store)) = 1

\* the step is one of get or getAll call p on the connected engine: its
\* start, or the answer to its request
ReadStep(p) ==
  /\ call'[p] # call[p]
  /\ call'[p].op \in Reads
  /\ \/ call[p].pc \in Final /\ conn = "open"
     \/ call[p].pc = "read"

\* every readwrite transaction in the queue after the step was there before
NoWriteTxAdded ==
  \A j \in 1..Len(txq') :
    ReadOnly(txq'[j]) \/ \E k \in 1..Len(txq) : txq[k] = txq'[j]

\* C15: on the connected engine no step of a get or getAll call changes
\* a collection, a key generator or the connection, creates a readwrite
\* transaction (so none appends an audit entry), or dispatches an event;
\* and a get that resolves does so with the record stored under the key,
\* or with nothing when the key is missing.
C15_ReadsChangeNothing ==
  [][ \A p \in Callers :
        ReadStep(p) =>
          /\ db' = db
          /\ conn' = conn
          /\ NoWriteTxAdded
          /\ call'[p].fired = <<>>
          /\ (call'[p].op = "get" /\ call'[p].pc = "resolved")
               => call'[p].result = Get(db, call[p].store, call[p].arg) ]_vars

\* a get on message 3, which is not stored, has resolved with nothing,
\* and a getAll on a collection holding records has resolved with them
C15_Witness ==
  /\ \E p \in Callers :
       /\ call[p].op = "get"
       /\ call[p].arg = 3
       /\ call[p].pc = "resolved"
       /\ call[p].result = {}
  /\ \E p \in Callers :
       /\ call[p].op = "getAll"
       /\ call[p].pc = "resolved"
       /\ call[p].result # {}

MarkerPresent(d) == Get(d, "meta", SeedMarker.key) # {}

SeedEntries(d) == { e \in GetAll(d, "logs", NoIndex, 0) : e.action = "seed" }

\* the step starts call p on an engine whose this.db is set
StartsConnected(p) ==
  /\ call[p].pc \in Final
  /\ call'[p] # call[p]
  /\ conn # "null"

\* the step in which open(), inside call p, goes on to seed()
EntersSeed(p) == call[p].pc = "marker" /\ call'[p].pc = "fetch"

\* the step in which the transaction of seed(), inside call p, completes
SeedCompletes(p) ==
  /\ call[p].pc = "seedComplete"
  /\ call'[p].pc # "seedComplete"
  /\ call'[p].committed

\* C16 (checked with the calls issued one at a time): a call made on a
\* connected engine opens no second connection and runs no seed(), and
\* open() itself then resolves at once with the handle it holds, leaving
\* store, transactions and handle as they are; open() goes on to seed()
\* only when the marker is absent from meta; the seed transaction never
\* completes on a store that holds the marker; and logs never holds a
\* second "seed" entry.
C16_OpenIdempotentSeedsOnce ==
  [][ /\ \A p \in Callers :
           /\ StartsConnected(p) =>
                /\ call'[p].pc # "connecting"
                /\ ~InSeed(call'[p])
                /\ conn' = conn
                /\ call'[p].op = "open" =>
                     /\ call'[p].pc = "resolved"
                     /\ db' = db
                     /\ txq' = txq
           /\ EntersSeed(p) => ~MarkerPresent(db)
           /\ SeedCompletes(p) => ~MarkerPresent(db)
      /\ Cardinality(SeedEntries(db')) <= 1 ]_vars

\* the first call seeded the new store or found the marker; the second
\* call, an open(), has resolved without any dispatch of its own
C16_Witness ==
  \E p \in Callers :
    /\ call[p].n = 2
    /\ call[p].op = "open"
    /\ call[p].pc = "resolved"
    /\ call[p].fired = <<>>
    /\ conn = "open"
    /\ MarkerPresent(db)
    /\ Cardinality(SeedEntries(db)) = 1
    /\ db["logs"].gen = 2

\* the records seed() writes: every one of them is visible / none of them is
AllSeedVisible(d) ==
  \A s \in StoreNames : \A k \in 1..Len(SeedItems(s)) : SeedItems(s)[k] \in d[s].recs

NoSeedVisible(d) ==
  \A s \in StoreNames : \A k \in 1..Len(SeedItems(s)) : SeedItems(s)[k] \notin d[s].recs

SeedAllOrNothing(d) ==
  \/ NoSeedVisible(d) /\ ~MarkerPresent(d)
  \/ AllSeedVisible(d) /\ MarkerPresent(d)

\* nothing but open() and seed() has acted on the store so far: the one
\* call issued is a read or an open(), or has not left open() yet
OnlySeedingSoFar ==
  /\ ncalls <= 1
  /\ \A p \in Callers :
       \/ call[p].op \in Reads \cup {"open", "none"}
       \/ call[p].pc \in {"connecting", "marker"}
       \/ InSeed(call[p])

\* the transaction is recordLog's for a "seed" entry
SeedLogTx(tx) == tx.kind = "log" /\ tx.reqs[1].arg.action = "seed"

\* C17 (checked with the calls issued one at a time): as long as only
\* open() and seed() have acted on the store, either no seed record is
\* visible and the marker is absent, or every seed record of every
\* collection is visible and the marker is present.  At any time, a step
\* of a call inside seed() either leaves the store as it is or makes every
\* seed record and the marker visible at once; recordLog('seed') is
\* reached only in the step that commits the seed transaction, and a
\* "seed" entry enters logs only when that recordLog transaction completes.
C17_SeedAllOrNothing ==
  /\ [](OnlySeedingSoFar => SeedAllOrNothing(db))
  /\ [][ /\ \A p \in Callers :
              (InSeed(call[p]) /\ call'[p] # call[p]) =>
                \/ db' = db
                \/ /\ AllSeedVisible(db')
                   /\ MarkerPresent(db')
                   /\ call'[p].committed
         /\ \A j \in 1..Len(txq') :
              (SeedLogTx(txq'[j]) /\ \A k \in 1..Len(txq) : txq[k].n # txq'[j].n \/ txq[k].kind # "log")
                => \E p \in Callers :
                     /\ SeedCompletes(p)
                     /\ AllSeedVisible(db')
                     /\ MarkerPresent(db')
         /\ ~(SeedEntries(db') \subseteq SeedEntries(db))
              => \E i \in 1..Len(txq) :
                   /\ SeedLogTx(txq[i])
                   /\ txq[i].ran
                   /\ db' = Committed(db, txq[i]) ]_vars

\* open() on a new store has resolved after seeding: the seed records and
\* the marker are visible and logs holds the "seed" entry
C17_Witness ==
  \E p \in Callers :
    /\ call[p].op = "open"
    /\ call[p].n = 1
    /\ call[p].pc = "resolved"
    /\ call[p].before = FreshDb
    /\ call[p].committed
    /\ Len(txq) = 0
    /\ db = SeededDb

\* every write of bulkPut or clearAll call c, whole: the puts of its
\* records, or the clear of every store
AllWrites(c) ==
  IF c.op = "bulkPut" THEN ValidPuts(c.store, c.arg)
  ELSE [ i \in 1..Len(STORES) |-> [op |-> "clear", store |-> STORES[i], arg |-> 0] ]

\* the step in which get or getAll call p resolves
ReadResolves(p) ==
  /\ call[p].op \in Reads
  /\ call[p].pc = "read"
  /\ call'[p].pc = "resolved"

\* the step in which the transaction of bulkPut or clearAll call q ends
WriteEnds(q) ==
  /\ call[q].op \in {"bulkPut", "clearAll"}
  /\ call[q].pc = "complete"
  /\ call'[q].pc # "complete"

\* C18: a get or getAll that overlaps other calls resolves with what the
\* committed store holds at that moment, and at that moment no readwrite
\* transaction on its collection is between its requests and its end;
\* the transaction of a bulkPut or clearAll changes the committed store in
\* one step, from the state before it to the state with every one of its
\* writes applied, or not at all; and the committed store changes in no
\* other way than by one whole transaction.  So a read returns the state
\* before such a transaction or after it, never a part of its writes.
C18_ReadsSeeWholeTransactions ==
  [][ /\ \A p \in Callers :
           ReadResolves(p) =>
             /\ call'[p].result = ReadResult(db, call[p])
             /\ \A i \in 1..Len(txq) :
                  txq[i].ran => call[p].store \notin txq[i].scope
      /\ \A q \in Callers :
           WriteEnds(q) =>
             \/ db' = db
             \/ db' = ApplyAll(db, AllWrites(call[q]))
      /\ db' # db =>
           \E i \in 1..Len(txq) :
             txq[i].ran /\ db' = ApplyAll(db, txq[i].reqs) ]_vars

\* getAll('messages') overlapped bulkPut('messages', [M1b, M2]) and has
\* resolved with both of its records
C18_Witness ==
  \E p \in Callers : \E q \in Callers \ {p} :
    /\ call[p].op = "getAll"
    /\ call[p].store = "messages"
    /\ call[p].pc = "resolved"
    /\ {M1b, M2} \subseteq call[p].result
    /\ call[q].op = "bulkPut"
    /\ Len(call[q].arg) = 2

\* the step starts call p
Starts(p) == call[p].pc \in Final /\ call'[p] # call[p]

\* C19 as stated: once the version-change signal has closed the
\* connection, no collection changes any more, every call issued from
\* then on ends at once without a transaction, and the handle stays
\* closed.
C19_NothingChangesAfterClose ==
  [][ conn = "closed" =>
        /\ db' = db
        /\ conn' = "closed"
        /\ \A p \in Callers :
             Starts(p) => call'[p].pc \in Final /\ txq' = txq ]_vars

\* C19 as amended: once the version-change signal has closed the
\* connection, the handle stays closed; every get, getAll, put, bulkPut,
\* delete and clearAll issued from then on is rejected with
\* InvalidStateError at once, and open() resolves with the closed handle,
\* without creating a transaction or changing the store; no transaction
\* at all is created any more, so the store changes only when a
\* transaction created before the signal completes.
C19_ClosedHandleServesNoCall ==
  [][ conn = "closed" =>
        /\ conn' = "closed"
        /\ \A p \in Callers :
             Starts(p) =>
               /\ IF call'[p].op = "open" THEN call'[p].pc = "resolved"
                  ELSE /\ call'[p].pc = "rejected"
                       /\ call'[p].cause = "InvalidStateError"
               /\ txq' = txq
               /\ db' = db
        /\ Len(txq') <= Len(txq)
        /\ \A j \in 1..Len(txq') : \E k \in 1..Len(txq) : txq'[j].n = txq[k].n /\ txq'[j].kind = txq[k].kind
        /\ db' # db =>
             \E i \in 1..Len(txq) : txq[i].ran /\ db' = Committed(db, txq[i]) ]_vars

\* after the signal a getAll was rejected at once, and a put that was in
\* flight when the signal came has had its write committed
C19_Witness ==
  /\ conn = "closed"
  /\ \E p \in Callers :
       /\ call[p].op = "getAll"
       /\ call[p].n = 2
       /\ call[p].pc = "rejected"
       /\ call[p].cause = "InvalidStateError"
  /\ \E p \in Callers :
       /\ call[p].op = "put"
       /\ call[p].n = 1
       /\ call[p].committed
       /\ call[p].pc = "rejected"
       /\ call[p].cause = "InvalidStateError"

\* the step completes the recordLog transaction txq[i]: its entry is in
\* logs afterwards
AuditCommits(i) ==
  /\ txq[i].kind = "log"
  /\ txq[i].ran
  /\ db' = Committed(db, txq[i])
  /\ db' # db

\* the key the store gives the entry of recordLog's transaction tx
AuditKey(tx) == AssignedKey(db["logs"], "logs", tx.reqs[1].arg)

\* C20: every audit entry the engine appends is stored under a key that
\* is strictly greater than the key of the entry appended before it, and
\* so than the key of every entry appended earlier, also when a clearAll()
\* has emptied logs in between; the entry is in logs under that key.
C20_AuditKeysIncrease ==
  [][ \A i \in 1..Len(txq) :
        AuditCommits(i) =>
          /\ AuditKey(txq[i]) > lastKey
          /\ lastKey' = AuditKey(txq[i])
          /\ \E e \in GetAll(db', "logs", NoIndex, 0) :
               /\ e.id = AuditKey(txq[i])
               /\ e.action = txq[i].reqs[1].arg.action ]_vars

\* the seed entry had key 1; clearAll() emptied logs and its reset entry
\* got key 2; the entry of the call after it got key 3
C20_Witness ==
  /\ lastKey = 3
  /\ \E e \in LogsNow : e.action = "reset" /\ e.id = 2
  /\ \E e \in LogsNow : e.action # "reset" /\ e.id = 3
  /\ SeedLog \notin LogsNow

\* the step ends the data transaction of put, bulkPut, delete or clearAll
\* call p without completing it: the call leaves its wait, but neither for
\* oncomplete after its requests succeeded nor with its write committed
DataTxFails(p) ==
  /\ call[p].op \in Ops
  /\ call[p].pc \in {"requests", "complete"}
  /\ call'[p] # call[p]
  /\ ~call'[p].committed
  /\ ~(call[p].pc = "requests" /\ call'[p].pc = "complete")

\* no transaction of call p is in the queue q
NoTxOf(q, p) == \A j \in 1..Len(q) : q[j].n # call[p].n

\* C21: when the data transaction of a put, bulkPut, delete or clearAll
\* fails, by a request error or an abort, the call is rejected in that
\* step with that failure, the store is left as it was, the requests are
\* not placed again, and the call has created no audit transaction and
\* dispatched no event, then or at any later time.
C21_FailedWriteRejectsOnceSilently ==
  /\ [][ \A p \in Callers :
           DataTxFails(p) =>
             /\ call'[p].pc = "rejected"
             /\ call'[p].cause \in {"RequestError", "AbortError"}
             /\ call'[p].fired = <<>>
             /\ db' = db
             /\ NoTxOf(txq', p) ]_vars
  /\ [](\A p \in Callers :
          (call[p].op \in Ops /\ TxAborted(p)) =>
            /\ call[p].fired = <<>>
            /\ ~call[p].committed
            /\ NoTxOf(txq, p))

\* a put on chats was rejected because its transaction aborted, while
\* listener h1 was registered for "chats:change"
C21_Witness ==
  \E p \in Callers :
    /\ call[p].op = "put"
    /\ call[p].store = "chats"
    /\ call[p].pc = "rejected"
    /\ call[p].cause = "AbortError"
    /\ Registered(subs, ChangeEvent("chats"), "h1")

\* the calls that are waiting for their own indexedDB.open request
Connecting == { p \in Callers : call[p].pc = "connecting" }

\* the calls that are inside seed()
Seeding == { p \in Callers : InSeed(call[p]) }

\* C25: calls that overlap the first open() share its connection attempt:
\* at no time are two calls waiting for a connection request of their
\* own, at no time are two calls inside seed(), and logs never holds two
\* "seed" entries.
C25_OverlappingOpensConnectOnce ==
  /\ Cardinality(Connecting) <= 1
  /\ Cardinality(Seeding) <= 1
  /\ Cardinality(SeedEntries(db)) <= 1

\* C26: when an open() call has resolved, the seeded marker is in meta
\* (nothing in this specification clears the store; of the claim's two
\* conditions the marker is the one no later write can undo).
C26_ResolvedOpenMeansSeeded ==
  \A p \in Callers :
    (call[p].op = "open" /\ call[p].pc = "resolved") => MarkerPresent(db)

\* C27: when the connection request of a call fails, the call, open() or
\* any operation, is rejected with that failure and the step changes
\* neither the store, nor the handle, nor the transactions; and while the
\* handle is unset no call has got past connecting: none has resolved,
\* none has created a transaction, every rejection is the connection
\* failure, and the store does not change.
C27_OpenFailureServesNothing ==
  /\ [][ \A p \in Callers :
           (call[p].pc = "connecting" /\ call'[p].pc = "rejected") =>
             /\ call'[p].cause = "OpenError"
             /\ call'[p].fired = <<>>
             /\ ~call'[p].committed
             /\ db' = db
             /\ conn' = conn
             /\ txq' = txq ]_vars
  /\ [][ conn = "null" => db' = db ]_vars
  /\ [](conn = "null" =>
          /\ txq = <<>>
          /\ \A p \in Callers :
               /\ call[p].pc \in {"idle", "connecting", "rejected"}
               /\ call[p].pc = "rejected" => call[p].cause = "OpenError")

\* a put was rejected with the connection failure and left the handle
\* unset; a later put connected and resolved
C27_Witness ==
  \E p, q \in Callers :
    /\ call[p].op = "put"
    /\ call[p].pc = "rejected"
    /\ call[p].cause = "OpenError"
    /\ call[q].op = "put"
    /\ call[q].n > call[p].n
    /\ call[q].pc = "resolved"
    /\ call[q].before = call[p].before

\* a subscription to the event with handler h is held: subscribe was
\* called with them and the disposer it returned has not been called
Held(ds, event, h) ==
  \E j \in 1..Len(ds) : ds[j].event = event /\ ds[j].handler = h

\* C28: a dispatch invokes handler h for an event exactly when a
\* subscription of h to that event is held, its disposer not yet called;
\* and calling a disposer ends the subscription it was returned for and
\* no other: every subscription still held stays registered, also a
\* second subscription of the same handler to the same name.
C28_DisposerEndsOnlyItsSubscription ==
  [][ /\ \A p \in Callers :
           call'[p].fired # call[p].fired =>
             \A k \in 1..Len(call'[p].fired) : \A h \in Handlers :
               (\E i \in 1..Len(call'[p].fired[k].invoked) :
                  call'[p].fired[k].invoked[i] = h)
                 <=> Held(disposers, call'[p].fired[k].event, h)
      /\ Len(disposers') < Len(disposers) =>
           \A j \in 1..Len(disposers') :
             Registered(subs', disposers'[j].event, disposers'[j].handler) ]_vars

\* the Like records of the pair (postId, profileId) in store d
PairLikes(d, postId, profileId) ==
  { l \in d["likes"].recs : l.postId = postId /\ l.profileId = profileId }

Liked(d, postId, profileId) == PairLikes(d, postId, profileId) # {}

\* the step in which the delete or put of like toggle t ends, as call p
ToggleWriteEnds(t, p) ==
  /\ task[t].kind = "like"
  /\ task[t].pc = "write"
  /\ p \in task[t].waits
  /\ call[p].pc \notin Final
  /\ call'[p].pc \in Final

\* C22 (checked with the handlers invoked one at a time): likes holds at
\* most one record for every pair (postId, profileId) in every reachable
\* state; and the write of a like toggle flips its pair, liked against
\* what it was when the write was called, exactly when that write is
\* committed.
C22_SequentialTogglesKeepOneLike ==
  /\ [](\A q \in PostIds, r \in ProfileIds :
          Cardinality(PairLikes(db, q, r)) <= 1)
  /\ [][ \A t \in Tasks, p \in Callers :
           ToggleWriteEnds(t, p) =>
             ((Liked(db', task[t].arg.postId, activeProfileId)
                 # Liked(call[p].before, task[t].arg.postId, activeProfileId))
               <=> call'[p].committed) ]_vars

\* two toggles of post 1 by the active profile have run one after the
\* other, the first put the like, the second deleted it
C22_Witness ==
  /\ \A t \in {1, 2} : task[t].kind = "like" /\ task[t].pc = "done"
  /\ \E e \in LogsNow : e.action = "put" /\ e.payload.store = "likes"
  /\ \E e \in LogsNow : e.action = "delete" /\ e.payload.store = "likes"
  /\ ~Liked(db, 1, activeProfileId)

\* the step in which the delete of like toggle t, call p, is committed
ToggleDeleteCommits(t, p) ==
  /\ task[t].kind = "like"
  /\ task[t].pc = "write"
  /\ p \in task[t].waits
  /\ call[p].op = "delete"
  /\ call[p].pc = "complete"
  /\ call'[p].committed

\* C23: a like toggle that finds its pair liked deletes one record, the
\* first of the pair in key order among those present when it read, and
\* no other; so when overlapping toggles have left the pair with two
\* records (the witness), one later toggle leaves the pair with one.
C23_ToggleDeletesOneRecord ==
  [][ \A t \in Tasks, p \in Callers :
        ToggleDeleteCommits(t, p) =>
          LET q == task[t].arg.postId
              had == PairLikes(call[p].before, q, activeProfileId)
          IN  /\ had # {}
              /\ PairLikes(db', q, activeProfileId)
                   = { l \in PairLikes(db, q, activeProfileId) :
                         l.id # Lowest({ m.id : m \in had }) } ]_vars

\* two toggles of post 1 have each put a like, with different ids, and a
\* third toggle, whose delete was logged after both puts, has ended with
\* one record of the pair left
C23_Witness ==
  /\ \A t \in Tasks : task[t].kind = "like" /\ task[t].pc = "done"
  /\ \E e1, e2, e3 \in LogsNow :
       /\ e1.action = "put" /\ e2.action = "put" /\ e3.action = "delete"
       /\ e1.payload.value.id # e2.payload.value.id
       /\ e3.id > e1.id /\ e3.id > e2.id
  /\ Cardinality(PairLikes(db, 1, activeProfileId)) = 1

\* the ids of the profiles whose active flag is set, and of all profiles
ActiveIds(d) == { r.id : r \in { x \in d["profiles"].recs : x.active } }

ProfileKeys(d) == { r.id : r \in d["profiles"].recs }

\* the active profile is p, or none when no profile has id p
OnlyActive(d, p) == ActiveIds(d) = {p} \cap ProfileKeys(d)

\* the step in which handler t, a setActiveProfile, completes
SetActiveCompletes(t) ==
  /\ task[t].kind = "setActiveProfile"
  /\ task[t].pc = "write"
  /\ task'[t].pc = "done"

\* the step in which the bulkPut of setActiveProfile t is committed
SetActiveCommits(t) ==
  /\ task[t].kind = "setActiveProfile"
  /\ task[t].pc = "write"
  /\ \E p \in task[t].waits : call[p].pc = "complete" /\ call'[p].committed

\* C24: at most one profile is active in every state, and when
\* setActiveProfile(p) completes the active profile is the one with id p,
\* or none when no profile has id p, however the calls interleave.
C24_CompletedCallLeavesItsProfileActive ==
  /\ [](Cardinality(ActiveIds(db)) <= 1)
  /\ [][ \A t \in Tasks :
           SetActiveCompletes(t) => OnlyActive(db', task[t].arg.profileId) ]_vars

\* C24 as amended: at most one profile is active in every state; the
\* profiles change only in the step that commits the bulkPut of a
\* setActiveProfile(p), and that step leaves the profile with id p the
\* only active one, or none when no profile has id p; so the active
\* profile is that of the call whose bulkPut was committed last.
C24_LastCommittedCallDecidesActive ==
  /\ [](Cardinality(ActiveIds(db)) <= 1)
  /\ [][ /\ \A t \in Tasks :
              SetActiveCommits(t) => OnlyActive(db', task[t].arg.profileId)
         /\ db'["profiles"] # db["profiles"] => \E t \in Tasks : SetActiveCommits(t) ]_vars

\* setActiveProfile(2) has completed, yet profile 1 is the active one:
\* an overlapping setActiveProfile(1), which called its bulkPut when
\* profile 1 was still active, has had it committed since
C24_Witness ==
  /\ task[1].kind = "setActiveProfile" /\ task[1].arg.profileId = 2
  /\ task[1].pc = "done"
  /\ task[2].kind = "setActiveProfile" /\ task[2].arg.profileId = 1
  /\ task[2].pc = "write"
  /\ \E p \in task[2].waits :
       /\ call[p].committed
       /\ ActiveIds(call[p].before) = {1}
  /\ \E e \in LogsNow : e.action = "bulkPut" /\ e.id = 2
  /\ ActiveIds(db) = {1}

\* the dev panel's reset, handler t, has completed, nothing has been
\* invoked since, and no transaction is left
ResetOver(t) ==
  /\ task[t].kind = "reset"
  /\ task[t].pc = "done"
  /\ \A u \in Tasks : u > t => task[u].pc = "idle"
  /\ Quiescent

\* every data collection holds exactly the records of the seed payload,
\* and the marker is in meta
FreshlySeeded(d) ==
  /\ \A s \in DataCollections : GetAll(d, s, NoIndex, 0) = Range(SeedItems(s))
  /\ MarkerPresent(d)

\* C29 (checked with the handlers invoked one at a time): once the dev
\* panel's reset, clearAll() then seed(), has completed and its
\* transactions have ended, every data collection holds exactly the
\* records of the seed payload, the marker is in meta, and logs holds
\* exactly a "reset" entry followed by a "seed" entry.
C29_ResetRestoresFreshlySeededStore ==
  \A t \in Tasks :
    ResetOver(t) =>
      /\ FreshlySeeded(db)
      /\ \E r, e \in LogsNow :
           /\ r.action = "reset"
           /\ e.action = "seed"
           /\ r.id < e.id
           /\ LogsNow = {r, e}

\* handler t is a chat quick action 'delete' that is running
CascadeRunning(t) ==
  /\ task[t].kind = "chatAction"
  /\ task[t].arg.action = "delete"
  /\ Running(t)

\* the messages of the chats other than chatId
OtherMessages(d, chatId) ==
  { m \in GetAll(d, "messages", NoIndex, 0) : m.chatId # chatId }

\* C30 (checked with the handlers invoked one at a time): when
\* handleChatQuickAction(chatId, 'delete') completes, the chat record is
\* absent and getAll('messages', 'by_chat', chatId) is empty; and no step
\* taken while the handler runs changes the messages of another chat.
C30_ChatDeleteCascades ==
  [][ \A t \in Tasks :
        CascadeRunning(t) =>
          /\ OtherMessages(db', task[t].arg.chatId) = OtherMessages(db, task[t].arg.chatId)
          /\ task'[t].pc = "done" =>
               /\ Get(db', "chats", task[t].arg.chatId) = {}
               /\ GetAll(db', "messages", "by_chat", task[t].arg.chatId) = {} ]_vars

\* every handler invoked has completed, none has thrown, and no call or
\* transaction is left
AllCompleted ==
  /\ \A t \in Tasks : task[t].pc \in {"idle", "done"}
  /\ Quiescent

\* a chat quick action 'delete' on chat c has completed
DeleteCompleted(c) ==
  \E t \in Tasks :
    /\ task[t].kind = "chatAction"
    /\ task[t].arg.action = "delete"
    /\ task[t].arg.chatId = c
    /\ task[t].pc = "done"

\* C31: once all handlers have completed, a chat that the quick action
\* 'delete' removed is not in the store, whatever pin action or send on
\* the same chat overlapped the delete, and no message with its chatId is
\* left.
C31_DeletedChatStaysRemoved ==
  \A c \in ChatIds :
    (AllCompleted /\ DeleteCompleted(c)) =>
      /\ Get(db, "chats", c) = {}
      /\ GetAll(db, "messages", "by_chat", c) = {}

====
